---- MODULE Spec2Model ----
(***************************************************************************)
(* State-machine model of the ImageEnhancer controller of                  *)
(* image-enhancer/frontend/script.js: file intake and validation, the      *)
(* asynchronous file read, the enhance round trip (fetch, body read,       *)
(* success / catch / finally), cancel, retry, dismiss, download and reset, *)
(* the statistics panels and the health probe issued at initialization.    *)
(* Every event handler is one action; every await of enhanceImage is a     *)
(* suspension point between two actions.                                   *)
(***************************************************************************)
EXTENDS Integers, Sequences, FiniteSets, TLC

VARIABLES
    isMobile,            \* this.isMobile
    currentImageFile,    \* this.currentImageFile: a file or NULL
    originalImage,       \* this.originalImage: data URL of a file (the file) or NULL
    enhancedImageUrl,    \* this.enhancedImageUrl: an object URL or NullUrl
    liveUrls,            \* object URLs created for enhanced results and not revoked
    enhanceBtnDisabled,  \* #enhanceBtn.disabled
    downloadBtnDisabled, \* #downloadBtn.disabled
    controls,            \* the four sliders, #denoiseCheckbox and #superResSelect
    loadingModal,        \* #loadingModal is displayed
    errorModal,          \* #errorModal is displayed
    errorMessage,        \* #errorMessage text
    mobileProcessing,    \* #mobileProcessingIndicator is displayed
    status,              \* #statusText: type and text
    readers,             \* FileReaders whose read has not completed: file -> how many
    calls,               \* enhanceImage invocations suspended at their await
    posts,               \* number of POST requests issued so far
    userSteps,           \* files accepted, controls changed and requests sent so far
    lastConfirm,         \* confirm() in the latest enhanceImage call: none, accepted, declined
    failedFile,          \* the file of the request whose failure the error modal reports
    lastSaved,           \* href and download name of the last anchor clicked by downloadImage
    originalStats,       \* #originalStats as displayed
    enhancedStats,       \* #enhancedStats as displayed
    backendStatus,       \* #backendStatus
    healthPending,       \* the GET of checkBackendConnection has not resolved
    healthGets,          \* number of GET requests issued to /health
    uncaughtError        \* the exception a handler was ended by, if any did

vars == <<isMobile, currentImageFile, originalImage, enhancedImageUrl, liveUrls,
          enhanceBtnDisabled, downloadBtnDisabled, controls,
          loadingModal, errorModal, errorMessage, mobileProcessing, status,
          readers, calls, posts, userSteps, lastConfirm,
          failedFile, lastSaved, originalStats, enhancedStats,
          backendStatus, healthPending, healthGets, uncaughtError>>

\* The statistics panels.  The Image objects that fill them are decoded from
\* data already in memory; their onload or onerror is taken to run before the
\* next event is handled, as a part of the handler that created the Image.
statsState == <<originalStats, enhancedStats>>

\* The health probe and its indicator.
probeState == <<backendStatus, healthPending, healthGets>>

\* The fields and widgets the controller owns, the pending reads and the
\* requests: everything but the status line and the record of confirm().
controllerState == <<currentImageFile, originalImage, enhancedImageUrl, liveUrls,
                     enhanceBtnDisabled, downloadBtnDisabled, controls,
                     loadingModal, errorModal, errorMessage, mobileProcessing,
                     readers, calls, posts, userSteps,
                     failedFile, lastSaved, statsState, probeState, uncaughtError>>

NULL == "null"

\* User inputs that add to the state in a run: files accepted, controls
\* changed and requests sent.
MaxUserSteps == 4

----------------------------------------------------------------------------
(* Files the user can offer.  A MIME type is the sequence of its characters. *)

MB == 1024 * 1024

PngType == <<"i","m","a","g","e","/","p","n","g">>
JpegType == <<"i","m","a","g","e","/","j","p","e","g">>
TextType == <<"t","e","x","t","/","p","l","a","i","n">>
DiskImageType == <<"a","p","p","l","i","c","a","t","i","o","n","/","x","-",
                   "a","p","p","l","e","-","d","i","s","k","i","m","a","g","e">>

Files == {"a.png", "b.jpg", "d.png", "notes.txt", "disk.dmg"}

FileType(f) ==
    CASE f = "a.png" -> PngType
      [] f = "b.jpg" -> JpegType
      [] f = "d.png" -> PngType
      [] f = "notes.txt" -> TextType
      [] f = "disk.dmg" -> DiskImageType

FileSize(f) ==
    CASE f = "a.png" -> 5 * MB
      [] f = "b.jpg" -> 10 * MB
      [] f = "d.png" -> 10 * MB + 1
      [] f = "notes.txt" -> 10 * MB + 1
      [] f = "disk.dmg" -> 5 * MB + 1

\* img.width and img.height of the file once decoded; <<0, 0>> for a file that
\* is no image.
Dim(f) ==
    CASE f = "a.png" -> <<3, 2>>
      [] f = "b.jpg" -> <<5, 4>>
      [] f = "d.png" -> <<7, 6>>
      [] OTHER -> <<0, 0>>

\* The browser can decode the file as an image (img.onload, not img.onerror).
Decodable(f) == f \in {"a.png", "b.jpg", "d.png"}

\* originalName.substring(0, originalName.lastIndexOf('.'))
nameWithoutExt(f) ==
    CASE f = "a.png" -> "a"
      [] f = "b.jpg" -> "b"
      [] f = "d.png" -> "d"
      [] f = "notes.txt" -> "notes"
      [] f = "disk.dmg" -> "disk"

\* A MIME type of the form image/<subtype>.
IsImageMime(t) ==
    /\ Len(t) > 6
    /\ SubSeq(t, 1, 6) = <<"i","m","a","g","e","/">>

\* file.type.match('image.*'): the string is compiled to the unanchored regular
\* expression /image.*/, which matches when "image" occurs anywhere in the type.
TypeMatches(t) ==
    \E i \in 1..Len(t) :
        /\ i + 4 <= Len(t)
        /\ SubSeq(t, i, i + 4) = <<"i","m","a","g","e">>

\* const maxSize = this.isMobile ? 5 * 1024 * 1024 : 10 * 1024 * 1024
maxSize(mobile) == IF mobile THEN 5 * MB ELSE 10 * MB

\* const maxMB = this.isMobile ? '5MB' : '10MB'
maxMB(mobile) == IF mobile THEN "5MB" ELSE "10MB"

\* TooLarge with >= for >: a file of exactly the ceiling is turned away.
TooLargeOrEqual(size, mobile) == size >= maxSize(mobile)

\* if (file.size > maxSize)
TooLarge(size, mobile) == size > maxSize(mobile)


----------------------------------------------------------------------------
(* Small helpers of the class. *)

\* showStatus(message, type)
showStatus(message, type) == [type |-> type, text |-> message]

\* showLoading that hides the modal whatever it is told.
showLoadingNever(show) == loadingModal' = FALSE

\* showLoading(show)
showLoading(show) == loadingModal' = show

\* showMobileProcessing(show, message)
showMobileProcessing(show) == mobileProcessing' = show

\* showErrorModal(message)
showErrorModal(message) ==
    /\ errorMessage' = message
    /\ errorModal' = TRUE

\* URL.revokeObjectURL(url) on the set of live object URLs
revokeObjectURL(live, url) == live \ {url}

\* URL.createObjectURL(blob): a URL no earlier call returned.  The blob is the
\* backend's answer to one request, so the request's serial number names it.
createObjectURL(call) ==
    [id |-> call.id, blob |-> [file |-> call.file, params |-> call.params]]

\* RequestParams that sends the sharpness the page started with.
RequestParamsStale(c) ==
    [sharpness |-> 20, contrast |-> c.contrast,
     brightness |-> c.brightness, color |-> c.color,
     denoise |-> c.denoise, super_resolution |-> c.superRes]

\* new URLSearchParams({...}) read from the controls
RequestParams(c) ==
    [sharpness |-> c.sharpness, contrast |-> c.contrast,
     brightness |-> c.brightness, color |-> c.color,
     denoise |-> c.denoise, super_resolution |-> c.superRes]

\* DefaultControls with the sharpness slider put back to 1.0.
DefaultControlsSharpnessOne ==
    [sharpness |-> 10, contrast |-> 12, brightness |-> 11, color |-> 11,
     denoise |-> FALSE, superRes |-> 1, format |-> "png"]

\* The values the reset writes into the controls (and the page starts with).
DefaultControls ==
    [sharpness |-> 20, contrast |-> 12, brightness |-> 11, color |-> 11,
     denoise |-> FALSE, superRes |-> 1, format |-> "png"]

\* this.enhancedImageUrl = null: the URL numbered 0, which wraps no response.
NullUrl == [id |-> 0, blob |-> [file |-> NULL, params |-> RequestParams(DefaultControls)]]

Sliders == {"sharpness", "contrast", "brightness", "color"}

\* Positions a slider is dragged to (tenths).
SliderInputs == {30}

SuperResOptions == {1, 2, 4, 8}

\* adjustMobileUI(): the 8x option is disabled on mobile
OptionEnabled(mobile, v) == ~(mobile /\ v = 8)

\* Values of #formatSelect.
FormatOptions == {"png", "jpeg"}

NoReaders == [f \in Files |-> 0]

\* A statistics panel with display none.
NoStats == [text |-> "none", size |-> <<0, 0>>, enhancedSize |-> <<0, 0>>, scale |-> 0]

\* stats.innerHTML of updateImageStats' img.onload: Current Size, Enhanced Size
OriginalStatsOf(size, scaleFactor) ==
    [text |-> "Current Size / Enhanced Size", size |-> size,
     enhancedSize |-> <<size[1] * scaleFactor, size[2] * scaleFactor>>,
     scale |-> scaleFactor]

\* stats.innerHTML of updateImageStats' img.onerror
UnableStats ==
    [text |-> "Unable to get image dimensions", size |-> <<0, 0>>,
     enhancedSize |-> <<0, 0>>, scale |-> 0]

\* enhancedStats.innerHTML of originalImg.onload: New Size, Scale Factor
EnhancedStatsOf(size, scale) ==
    [text |-> "Enhanced Successfully", size |-> size,
     enhancedSize |-> <<size[1] * scale, size[2] * scale>>,
     scale |-> scale]

\* No anchor has been clicked.
NoSave == [href |-> NullUrl, download |-> <<>>]

\* The run may still take a user input that adds to the state.
MayStep == userSteps < MaxUserSteps

----------------------------------------------------------------------------
\* constructor(): the fields, and the device mode read from the user agent
constructor ==
    /\ isMobile \in BOOLEAN
    /\ originalImage = NULL
    /\ currentImageFile = NULL
    /\ enhancedImageUrl = NullUrl
    /\ healthGets = 1
    /\ healthPending = TRUE

\* The page as it is loaded: both action buttons disabled, the controls at
\* their defaults, no modal and no status shown.
pageLoaded ==
    /\ enhanceBtnDisabled = TRUE
    /\ downloadBtnDisabled = TRUE
    /\ controls = DefaultControls
    /\ loadingModal = FALSE
    /\ errorModal = FALSE
    /\ errorMessage = <<>>
    /\ mobileProcessing = FALSE
    /\ status = showStatus(<<>>, "none")
    /\ originalStats = NoStats
    /\ enhancedStats = NoStats
    /\ backendStatus = "checking"

Init ==
    /\ constructor
    /\ pageLoaded
    /\ liveUrls = {}
    /\ readers = NoReaders
    /\ calls = {}
    /\ posts = 0
    /\ userSteps = 0
    /\ lastConfirm = "none"
    /\ failedFile = NULL
    /\ lastSaved = NoSave
    /\ uncaughtError = "none"

----------------------------------------------------------------------------
(* handleImageFile(file): validation, selection and start of the read. *)

handleImageFile(file) ==
    /\ MayStep
    /\ IF ~TypeMatches(FileType(file))
       THEN /\ status' = showStatus(<<"Please select an image file (JPG, PNG, etc.)">>, "error")
            /\ UNCHANGED controllerState
       ELSE IF TooLarge(FileSize(file), isMobile)
       THEN /\ status' = showStatus(<<"File too large! Please select image under ",
                                      maxMB(isMobile), ".">>, "error")
            /\ UNCHANGED controllerState
       ELSE /\ currentImageFile' = file
            /\ readers' = [readers EXCEPT ![file] = @ + 1]
            /\ userSteps' = userSteps + 1
            /\ UNCHANGED <<originalImage, enhancedImageUrl, liveUrls,
                           enhanceBtnDisabled, downloadBtnDisabled, controls,
                           loadingModal, errorModal, errorMessage,
                           mobileProcessing, status, calls, posts,
                           failedFile, lastSaved, statsState, probeState, uncaughtError>>
    /\ UNCHANGED <<isMobile, lastConfirm>>

\* resetEnhancedPreview that leaves the result in place.
resetEnhancedPreviewKeeps == UNCHANGED <<enhancedStats, liveUrls, enhancedImageUrl>>

\* resetEnhancedPreview(): if (this.enhancedImageUrl) { revoke it; = null }
resetEnhancedPreview ==
    /\ enhancedStats' = NoStats
    /\ liveUrls' = IF enhancedImageUrl # NullUrl
                   THEN revokeObjectURL(liveUrls, enhancedImageUrl)
                   ELSE liveUrls
    /\ enhancedImageUrl' = NullUrl

\* updateImageStats('originalStats', file): img.onload multiplies the decoded
\* size by the selector's value; img.onerror shows that there is no size
updateImageStats(file) ==
    originalStats' = IF Decodable(file)
                     THEN OriginalStatsOf(Dim(file), controls.superRes)
                     ELSE UnableStats

\* originalImg.onload of the success path: the size of the preview held in
\* originalImage times the scale this invocation sent; originalImg has no
\* onerror, so a source that is null or no image displays nothing
updateEnhancedStats(src, scale) ==
    enhancedStats' = IF src # NULL /\ Decodable(src)
                     THEN EnhancedStatsOf(Dim(src), scale)
                     ELSE enhancedStats

\* readerOnload without the line that disables download.
readerOnloadLeavesDownload(file) ==
    /\ readers[file] > 0
    /\ readers' = [readers EXCEPT ![file] = @ - 1]
    /\ originalImage' = file
    /\ updateImageStats(file)
    /\ resetEnhancedPreview
    /\ enhanceBtnDisabled' = FALSE
    /\ status' = showStatus(<<"Image loaded! Adjust settings and click Enhance Image">>,
                            "success")
    /\ UNCHANGED <<isMobile, currentImageFile, controls, loadingModal, errorModal,
                   errorMessage, mobileProcessing, calls, posts, userSteps,
                   lastConfirm, failedFile, lastSaved, probeState, uncaughtError,
                   downloadBtnDisabled>>

\* reader.onload of the FileReader that reads file
readerOnload(file) ==
    /\ readers[file] > 0
    /\ readers' = [readers EXCEPT ![file] = @ - 1]
    /\ originalImage' = file
    /\ updateImageStats(file)
    /\ resetEnhancedPreview
    /\ enhanceBtnDisabled' = FALSE
    /\ downloadBtnDisabled' = TRUE
    /\ status' = showStatus(<<"Image loaded! Adjust settings and click Enhance Image">>,
                            "success")
    /\ UNCHANGED <<isMobile, currentImageFile, controls, loadingModal, errorModal,
                   errorMessage, mobileProcessing, calls, posts, userSteps,
                   lastConfirm, failedFile, lastSaved, probeState, uncaughtError>>

\* reader.onerror of the FileReader that reads file
readerOnerror(file) ==
    /\ readers[file] > 0
    /\ readers' = [readers EXCEPT ![file] = @ - 1]
    /\ status' = showStatus(<<"Failed to load image">>, "error")
    /\ UNCHANGED <<isMobile, currentImageFile, originalImage, enhancedImageUrl,
                   liveUrls, enhanceBtnDisabled, downloadBtnDisabled, controls,
                   loadingModal, errorModal, errorMessage, mobileProcessing,
                   calls, posts, userSteps, lastConfirm,
                   failedFile, lastSaved, statsState, probeState, uncaughtError>>

----------------------------------------------------------------------------
(* The controls. *)

\* 'input' on a slider: only the slider's value and its label change
sliderInput(slider, value) ==
    /\ MayStep
    /\ userSteps' = userSteps + 1
    /\ controls' = [controls EXCEPT ![slider] = value]
    /\ UNCHANGED <<isMobile, currentImageFile, originalImage, enhancedImageUrl,
                   liveUrls, enhanceBtnDisabled, downloadBtnDisabled,
                   loadingModal, errorModal, errorMessage, mobileProcessing,
                   status, readers, calls, posts, lastConfirm,
                   failedFile, lastSaved, statsState, probeState, uncaughtError>>

\* #denoiseCheckbox toggled (no listener)
denoiseToggle ==
    /\ MayStep
    /\ userSteps' = userSteps + 1
    /\ controls' = [controls EXCEPT !.denoise = ~@]
    /\ UNCHANGED <<isMobile, currentImageFile, originalImage, enhancedImageUrl,
                   liveUrls, enhanceBtnDisabled, downloadBtnDisabled,
                   loadingModal, errorModal, errorMessage, mobileProcessing,
                   status, readers, calls, posts, lastConfirm,
                   failedFile, lastSaved, statsState, probeState, uncaughtError>>

\* 'change' on #superResSelect
superResSelectChange(value) ==
    /\ MayStep
    /\ OptionEnabled(isMobile, value)
    /\ value # controls.superRes
    /\ userSteps' = userSteps + 1
    /\ controls' = [controls EXCEPT !.superRes = value]
    /\ status' = showStatus(<<"Super resolution: ", ToString(value), "x selected">>, "success")
    /\ UNCHANGED <<isMobile, currentImageFile, originalImage, enhancedImageUrl,
                   liveUrls, enhanceBtnDisabled, downloadBtnDisabled,
                   loadingModal, errorModal, errorMessage, mobileProcessing,
                   readers, calls, posts, lastConfirm,
                   failedFile, lastSaved, statsState, probeState, uncaughtError>>

\* #formatSelect changed (no listener)
formatSelectChange(value) ==
    /\ MayStep
    /\ value # controls.format
    /\ userSteps' = userSteps + 1
    /\ controls' = [controls EXCEPT !.format = value]
    /\ UNCHANGED <<isMobile, currentImageFile, originalImage, enhancedImageUrl,
                   liveUrls, enhanceBtnDisabled, downloadBtnDisabled,
                   loadingModal, errorModal, errorMessage, mobileProcessing,
                   status, readers, calls, posts, lastConfirm,
                   failedFile, lastSaved, statsState, probeState, uncaughtError>>

----------------------------------------------------------------------------
(* enhanceImage(): the part that runs before the await. *)

\* NeedsConfirm with > for >=: 4x goes unasked.
NeedsConfirmAboveFour(mobile, superResValue) == mobile /\ superResValue > 4

\* if (this.isMobile && superResValue >= 4) confirm(...)
NeedsConfirm(mobile, superResValue) == mobile /\ superResValue >= 4

\* The answers confirm() can give in this call (TRUE when it is not asked).
ConfirmAnswers == IF NeedsConfirm(isMobile, controls.superRes) THEN BOOLEAN ELSE {TRUE}

\* loadingMessage
LoadingMessage(superResValue) ==
    IF superResValue = 4 THEN "Applying 4x super resolution... This may take longer."
    ELSE IF superResValue = 8 THEN "Applying 8x super resolution... Please be patient."
    ELSE "Enhancing image... Please wait."

\* fetch(`${backendUrl}/enhance-advanced?${params}`, {method: 'POST', body: formData})
fetchPost(file, params) ==
    /\ posts' = posts + 1
    /\ userSteps' = userSteps + 1
    /\ calls' = calls \cup {[id |-> posts + 1, file |-> file, params |-> params]}

\* What enhanceImage leaves alone before its await, the error modal apart.
enhanceFrame == <<isMobile, currentImageFile, originalImage, enhancedImageUrl,
                  liveUrls, enhanceBtnDisabled, downloadBtnDisabled, controls,
                  errorMessage, readers,
                  failedFile, lastSaved, statsState, probeState, uncaughtError>>

\* noFileSelected without the check: enhanceImage goes on with no file.
noFileSelectedUnchecked(file) == FALSE

\* if (!this.currentImageFile) { showStatus(...); return }
noFileSelected(file) == file = NULL

enhanceImage(answer) ==
    /\ UNCHANGED enhanceFrame
    /\ IF noFileSelected(currentImageFile)
       THEN /\ status' = showStatus(<<"Please select an image first">>, "error")
            /\ lastConfirm' = "none"
            /\ UNCHANGED <<loadingModal, mobileProcessing, calls, posts, userSteps>>
       ELSE IF NeedsConfirm(isMobile, controls.superRes) /\ ~answer
       THEN /\ lastConfirm' = "declined"
            /\ UNCHANGED <<status, loadingModal, mobileProcessing, calls, posts,
                           userSteps>>
       ELSE /\ lastConfirm' = IF NeedsConfirm(isMobile, controls.superRes)
                              THEN "accepted" ELSE "none"
            /\ IF isMobile THEN showMobileProcessing(TRUE)
                           ELSE UNCHANGED mobileProcessing
            /\ showLoading(TRUE)
            /\ status' = showStatus(<<LoadingMessage(controls.superRes)>>, "loading")
            /\ fetchPost(currentImageFile, RequestParams(controls))

\* enhanceBtnClick that waits for the health probe to have resolved.
enhanceBtnClickGated ==
    /\ ~healthPending
    /\ ~enhanceBtnDisabled
    /\ MayStep
    /\ \E answer \in ConfirmAnswers : enhanceImage(answer)
    /\ UNCHANGED errorModal

\* click on #enhanceBtn: the listener runs on every click the button takes,
\* and nothing disables the button while a request is outstanding
enhanceBtnClick ==
    /\ ~enhanceBtnDisabled
    /\ MayStep
    /\ \E answer \in ConfirmAnswers : enhanceImage(answer)
    /\ UNCHANGED errorModal

\* click on #retryBtn: hideModal('errorModal'); if (currentImageFile) enhanceImage()
retryBtnClick ==
    /\ errorModal
    /\ MayStep
    /\ errorModal' = FALSE
    /\ IF currentImageFile # NULL
       THEN \E answer \in ConfirmAnswers : enhanceImage(answer)
       ELSE UNCHANGED <<enhanceFrame, status, lastConfirm, loadingModal,
                        mobileProcessing, calls, posts, userSteps>>

\* cancelBtnClick that also drops the outstanding requests.
cancelBtnAborts ==
    /\ loadingModal
    /\ loadingModal' = FALSE
    /\ calls' = {}
    /\ status' = showStatus(<<"Enhancement cancelled">>, "info")
    /\ UNCHANGED <<isMobile, currentImageFile, originalImage, enhancedImageUrl,
                   liveUrls, enhanceBtnDisabled, downloadBtnDisabled, controls,
                   errorModal, errorMessage, mobileProcessing, readers,
                   posts, userSteps, lastConfirm,
                   failedFile, lastSaved, statsState, probeState, uncaughtError>>

\* click on #cancelBtn
cancelBtnClick ==
    /\ loadingModal
    /\ loadingModal' = FALSE
    /\ status' = showStatus(<<"Enhancement cancelled">>, "info")
    /\ UNCHANGED <<isMobile, currentImageFile, originalImage, enhancedImageUrl,
                   liveUrls, enhanceBtnDisabled, downloadBtnDisabled, controls,
                   errorModal, errorMessage, mobileProcessing, readers, calls,
                   posts, userSteps, lastConfirm,
                   failedFile, lastSaved, statsState, probeState, uncaughtError>>

\* click on #closeErrorBtn
closeErrorBtnClick ==
    /\ errorModal
    /\ errorModal' = FALSE
    /\ UNCHANGED <<isMobile, currentImageFile, originalImage, enhancedImageUrl,
                   liveUrls, enhanceBtnDisabled, downloadBtnDisabled, controls,
                   loadingModal, errorMessage, mobileProcessing, status, readers,
                   calls, posts, userSteps, lastConfirm,
                   failedFile, lastSaved, statsState, probeState, uncaughtError>>

\* setupModalSwipeGestures(): on mobile a swipe down hides the modal it is made on
modalSwipe(modalId) ==
    /\ isMobile
    /\ IF modalId = "errorModal"
       THEN errorModal /\ errorModal' = FALSE /\ UNCHANGED loadingModal
       ELSE loadingModal /\ loadingModal' = FALSE /\ UNCHANGED errorModal
    /\ UNCHANGED <<isMobile, currentImageFile, originalImage, enhancedImageUrl,
                   liveUrls, enhanceBtnDisabled, downloadBtnDisabled, controls,
                   errorMessage, mobileProcessing, status, readers, calls, posts,
                   userSteps, lastConfirm,
                   failedFile, lastSaved, statsState, probeState, uncaughtError>>

----------------------------------------------------------------------------
(* enhanceImage(): what runs when the request resolves.  Between the await of *)
(* fetch and the await of response.blob() or response.text() the function     *)
(* writes nothing, so each outcome of the round trip is one step.             *)

HttpErrors == {500}

ErrorTexts == {"OOM"}

\* finallyBlock left out: the indicators stay as they are.
finallyBlockMissing == UNCHANGED <<loadingModal, mobileProcessing>>

\* finally { this.showLoading(false); if (this.isMobile) this.showMobileProcessing(false) }
finallyBlock ==
    /\ showLoading(FALSE)
    /\ IF isMobile THEN showMobileProcessing(FALSE) ELSE UNCHANGED mobileProcessing

\* catchBlock that swallows the error: no modal, no message.
catchBlockSilent(message) == UNCHANGED <<errorModal, errorMessage>>

\* catch (error) { this.showErrorModal(`Enhancement failed: ${error.message}`) }
catchBlock(message) == showErrorModal(<<"Enhancement failed: ">> \o message)

\* revokePrevious without the revocation: the previous URL is left live.
revokePreviousForgotten(live, url) == live

\* if (this.enhancedImageUrl) URL.revokeObjectURL(this.enhancedImageUrl)
revokePrevious(live, url) == IF url # NullUrl THEN revokeObjectURL(live, url) ELSE live

\* enableDownload that leaves the button as it is.
enableDownloadForgotten == UNCHANGED downloadBtnDisabled

\* document.getElementById('downloadBtn').disabled = false
enableDownload == downloadBtnDisabled' = FALSE

\* responseOk that drops the response of a request whose file is no longer
\* the Selected File: only the finally block runs.
responseOkDiscardsStale(call) ==
    /\ call \in calls
    /\ calls' = calls \ {call}
    /\ IF call.file = currentImageFile
       THEN /\ enhancedImageUrl' = createObjectURL(call)
            /\ liveUrls' = revokePrevious(liveUrls, enhancedImageUrl) \cup {createObjectURL(call)}
            /\ enableDownload
            /\ status' = showStatus(<<"Image enhanced successfully! Click Download to save.">>,
                                    "success")
            /\ updateEnhancedStats(originalImage, call.params.super_resolution)
       ELSE UNCHANGED <<enhancedImageUrl, liveUrls, downloadBtnDisabled, status,
                        enhancedStats>>
    /\ finallyBlock
    /\ UNCHANGED <<isMobile, currentImageFile, originalImage, enhanceBtnDisabled,
                   controls, errorModal, errorMessage, readers, posts,
                   userSteps, lastConfirm, failedFile, lastSaved,
                   originalStats, probeState, uncaughtError>>

\* response.ok and the blob arrived: the success path, then finally
responseOk(call) ==
    /\ call \in calls
    /\ calls' = calls \ {call}
    /\ enhancedImageUrl' = createObjectURL(call)
    /\ liveUrls' = revokePrevious(liveUrls, enhancedImageUrl) \cup {createObjectURL(call)}
    /\ enableDownload
    /\ status' = showStatus(
           IF call.params.super_resolution > 1
           THEN <<"Image enhanced with ", ToString(call.params.super_resolution),
                  "x super resolution! Click Download to save.">>
           ELSE <<"Image enhanced successfully! Click Download to save.">>,
           "success")
    /\ updateEnhancedStats(originalImage, call.params.super_resolution)
    /\ finallyBlock
    /\ UNCHANGED <<isMobile, currentImageFile, originalImage, enhanceBtnDisabled,
                   controls, errorModal, errorMessage, readers, posts,
                   userSteps, lastConfirm, failedFile, lastSaved,
                   originalStats, probeState, uncaughtError>>

\* What the catch path leaves alone.
failureFrame == <<isMobile, currentImageFile, originalImage, enhancedImageUrl,
                  liveUrls, enhanceBtnDisabled, downloadBtnDisabled, controls,
                  status, readers, posts, userSteps, lastConfirm,
                  lastSaved, statsState, probeState, uncaughtError>>

\* !response.ok: throw new Error(`Server error: ${response.status} - ${errorText}`)
responseNotOk(call, httpStatus, errorText) ==
    /\ call \in calls
    /\ calls' = calls \ {call}
    /\ catchBlock(<<"Server error: ", ToString(httpStatus), " - ", errorText>>)
    /\ failedFile' = call.file
    /\ finallyBlock
    /\ UNCHANGED failureFrame

\* fetch rejects, or the body cannot be read: a network-level failure
networkFailure(call) ==
    /\ call \in calls
    /\ calls' = calls \ {call}
    /\ catchBlock(<<"Failed to fetch">>)
    /\ failedFile' = call.file
    /\ finallyBlock
    /\ UNCHANGED failureFrame

----------------------------------------------------------------------------
(* download and reset *)

\* `_${superResValue}x` or nothing
scaleSuffix(superResValue) == IF superResValue > 1 THEN <<"_", ToString(superResValue), "x">> ELSE <<>>

\* `enhanced${scaleSuffix}_${nameWithoutExt}_${timestamp}.png`, the timestamp
\* (the clock's reading) left out
filename(file, superResValue) ==
    <<"enhanced">> \o scaleSuffix(superResValue) \o <<"_", nameWithoutExt(file), ".png">>

\* downloadImage(); with no current file originalName cannot be read and the
\* handler ends with a TypeError before anything is saved or shown
downloadImage ==
    /\ ~downloadBtnDisabled
    /\ IF enhancedImageUrl = NullUrl
       THEN /\ status' = showStatus(<<"No enhanced image to download">>, "error")
            /\ UNCHANGED <<lastSaved, uncaughtError>>
       ELSE IF currentImageFile = NULL
       THEN /\ uncaughtError' = "TypeError"
            /\ UNCHANGED <<status, lastSaved>>
       ELSE /\ lastSaved' = [href |-> enhancedImageUrl,
                             download |-> filename(currentImageFile, controls.superRes)]
            /\ UNCHANGED uncaughtError
            /\ status' = showStatus(<<"Download started: ">>
                                    \o filename(currentImageFile, controls.superRes),
                                    "success")
    /\ UNCHANGED <<isMobile, currentImageFile, originalImage, enhancedImageUrl,
                   liveUrls, enhanceBtnDisabled, downloadBtnDisabled, controls,
                   loadingModal, errorModal, errorMessage, mobileProcessing,
                   readers, calls, posts, userSteps, lastConfirm,
                   failedFile, statsState, probeState>>

\* resetAll that also drops the outstanding requests.
resetAllAborts ==
    /\ enhanceBtnDisabled' = TRUE
    /\ downloadBtnDisabled' = TRUE
    /\ controls' = DefaultControls
    /\ originalImage' = NULL
    /\ currentImageFile' = NULL
    /\ resetEnhancedPreview
    /\ originalStats' = NoStats
    /\ calls' = {}
    /\ status' = showStatus(<<"Reset complete. Upload a new image to start.">>, "success")
    /\ UNCHANGED <<isMobile, loadingModal, errorModal, errorMessage,
                   mobileProcessing, readers, posts, userSteps,
                   lastConfirm, failedFile, lastSaved, probeState, uncaughtError>>

\* resetAll()
resetAll ==
    /\ enhanceBtnDisabled' = TRUE
    /\ downloadBtnDisabled' = TRUE
    /\ controls' = DefaultControls
    /\ originalImage' = NULL
    /\ currentImageFile' = NULL
    /\ resetEnhancedPreview
    /\ originalStats' = NoStats
    /\ status' = showStatus(<<"Reset complete. Upload a new image to start.">>, "success")
    /\ UNCHANGED <<isMobile, loadingModal, errorModal, errorMessage,
                   mobileProcessing, readers, calls, posts, userSteps,
                   lastConfirm, failedFile, lastSaved, probeState, uncaughtError>>

----------------------------------------------------------------------------
(* checkBackendConnection(): the GET issued by init() resolves. *)

\* What the health probe leaves alone: everything but its indicator.
probeFrame == <<isMobile, currentImageFile, originalImage, enhancedImageUrl,
                liveUrls, enhanceBtnDisabled, downloadBtnDisabled, controls,
                loadingModal, errorModal, errorMessage, mobileProcessing,
                status, readers, calls, posts, userSteps, lastConfirm,
                failedFile, lastSaved, statsState, healthGets, uncaughtError>>

\* response.ok
healthOk ==
    /\ healthPending
    /\ healthPending' = FALSE
    /\ backendStatus' = "Backend connected"
    /\ UNCHANGED probeFrame

\* !response.ok
healthNotOk ==
    /\ healthPending
    /\ healthPending' = FALSE
    /\ backendStatus' = "Backend connection issue"
    /\ UNCHANGED probeFrame

\* fetch rejects: catch (error)
healthError ==
    /\ healthPending
    /\ healthPending' = FALSE
    /\ backendStatus' = "Backend not reachable. Make sure backend is running on port 8000."
    /\ UNCHANGED probeFrame

----------------------------------------------------------------------------
Next ==
    \/ \E f \in Files : handleImageFile(f)
    \/ \E f \in Files : readerOnload(f)
    \/ \E f \in Files : readerOnerror(f)
    \/ \E s \in Sliders, v \in SliderInputs : sliderInput(s, v)
    \/ denoiseToggle
    \/ \E v \in SuperResOptions : superResSelectChange(v)
    \/ \E v \in FormatOptions : formatSelectChange(v)
    \/ enhanceBtnClick
    \/ retryBtnClick
    \/ cancelBtnClick
    \/ closeErrorBtnClick
    \/ \E m \in {"errorModal", "loadingModal"} : modalSwipe(m)
    \/ \E c \in calls : responseOk(c)
    \/ \E c \in calls, h \in HttpErrors, t \in ErrorTexts : responseNotOk(c, h, t)
    \/ \E c \in calls : networkFailure(c)
    \/ downloadImage
    \/ resetAll
    \/ healthOk
    \/ healthNotOk
    \/ healthError

Spec == Init /\ [][Next]_vars

\* The round trip of some suspended enhanceImage invocation ends.
Resolve ==
    \E c \in calls :
        \/ responseOk(c)
        \/ \E h \in HttpErrors, t \in ErrorTexts : responseNotOk(c, h, t)
        \/ networkFailure(c)

\* Every request eventually resolves.
FairSpec == Spec /\ WF_vars(Resolve)

----------------------------------------------------------------------------
(* Properties *)

\* A step in which one suspended enhanceImage invocation ran to its end.
Completion == calls' # calls /\ calls' \subseteq calls

\* The file-size ceiling of the device mode, in bytes, and its name.
Ceiling == IF isMobile THEN 5 * 1024 * 1024 ELSE 10 * 1024 * 1024

CeilingName == IF isMobile THEN "5MB" ELSE "10MB"

OneLiveUrl ==
    /\ Cardinality(liveUrls) <= 1
    /\ liveUrls = IF enhancedImageUrl = NullUrl THEN {} ELSE {enhancedImageUrl}

\* C1: in every reachable state at most one object URL created for the
\* enhanced result is live, and it is the stored one; a step of enhanceImage
\* that creates a URL leaves the previously stored one revoked; reset and a
\* completed file read leave no URL live and the field null.
C1_OneLiveObjectUrl ==
    /\ []OneLiveUrl
    /\ [][(\E c \in calls : responseOk(c)) =>
              /\ enhancedImageUrl \notin liveUrls'
              /\ liveUrls' = {enhancedImageUrl'}]_vars
    /\ [][(resetAll \/ \E f \in Files : readerOnload(f)) =>
              /\ enhancedImageUrl' = NullUrl
              /\ liveUrls' = {}]_vars

\* Two overlapping requests of one file both succeeded, the first one sent
\* answering last: its URL replaced the URL of the second.
C1_Witness ==
    /\ posts = 2
    /\ userSteps = 3
    /\ calls = {}
    /\ errorMessage = <<>>
    /\ currentImageFile # NULL
    /\ enhancedImageUrl.id = 1
    /\ liveUrls = {enhancedImageUrl}

\* C2: the Selected File always has a MIME type of the form image/<subtype>,
\* and offering a file of another type shows an error and changes neither the
\* Selected File, the preview, the Enhanced Result nor the button flags.
C2_OnlyImageTypesSelected ==
    /\ [](currentImageFile # NULL => IsImageMime(FileType(currentImageFile)))
    /\ [][\A f \in Files :
              (handleImageFile(f) /\ ~IsImageMime(FileType(f))) =>
                  /\ status'.type = "error"
                  /\ UNCHANGED <<currentImageFile, originalImage, enhancedImageUrl,
                                 enhanceBtnDisabled, downloadBtnDisabled>>]_vars

\* What accept-file never does with a file above the ceiling: select it,
\* start a read of it, or let a request carry it.
OversizedKeptOut ==
    /\ currentImageFile # NULL => FileSize(currentImageFile) <= Ceiling
    /\ \A f \in Files : readers[f] > 0 => FileSize(f) <= Ceiling
    /\ \A c \in calls : FileSize(c.file) <= Ceiling

SizeError == showStatus(<<"File too large! Please select image under ", CeilingName, ".">>,
                        "error")

\* C3 as claimed: every file above the ceiling is rejected with the size error
\* that names the limit, is never selected, read or sent, and a file of
\* exactly the ceiling is accepted.
C3_EveryOversizedFileGetsSizeError ==
    /\ []OversizedKeptOut
    /\ [][\A f \in Files :
              (handleImageFile(f) /\ FileSize(f) > Ceiling) =>
                  /\ status' = SizeError
                  /\ UNCHANGED controllerState]_vars
    /\ [][\A f \in Files :
              (handleImageFile(f) /\ FileSize(f) = Ceiling) => currentImageFile' = f]_vars

\* C3, amended: a file above the ceiling (5MB on mobile, 10MB otherwise) is
\* never selected, read or sent, and offering it changes nothing but the
\* status line; if its type passes the type check the status is the size
\* error naming the limit; a file of exactly the ceiling that passes the type
\* check becomes the Selected File and its read starts.
C3_OversizedRejected ==
    /\ []OversizedKeptOut
    /\ [][\A f \in Files :
              (handleImageFile(f) /\ FileSize(f) > Ceiling) =>
                  /\ UNCHANGED controllerState
                  /\ TypeMatches(FileType(f)) => status' = SizeError]_vars
    /\ [][\A f \in Files :
              (handleImageFile(f) /\ FileSize(f) = Ceiling /\ TypeMatches(FileType(f))) =>
                  /\ currentImageFile' = f
                  /\ readers'[f] = readers[f] + 1]_vars

\* On mobile the file of exactly 5MB is selected and a larger one has just
\* been turned away with the 5MB message.
C3_Witness ==
    /\ isMobile
    /\ currentImageFile = "a.png"
    /\ status = SizeError

\* C4: enhance with no Selected File shows the error status and changes
\* nothing else: no request, no loading indicator, no error modal, no field.
C4_EnhanceWithoutFile ==
    [][(enhanceBtnClick /\ currentImageFile = NULL) =>
          /\ status' = showStatus(<<"Please select an image first">>, "error")
          /\ UNCHANGED controllerState]_vars

\* Enhance was clicked with the button enabled and no file selected.
C4_Witness ==
    /\ currentImageFile = NULL
    /\ ~enhanceBtnDisabled
    /\ status = showStatus(<<"Please select an image first">>, "error")
    /\ calls = {}
    /\ posts = 0

\* A click on Enhance, or on Retry with a file selected: enhanceImage runs.
EnhanceInvoked == enhanceBtnClick \/ (retryBtnClick /\ currentImageFile # NULL)

\* C5: on mobile with factor 4 or 8, enhanceImage with a file selected asks
\* for confirmation, and sends no request unless the answer is yes; when the
\* user declines nothing is sent, shown or changed (Retry has hidden its
\* error modal before).  On desktop, or with factor 1 or 2, nothing is asked.
C5_ConfirmOnMobileUpscale ==
    /\ [][(EnhanceInvoked /\ currentImageFile # NULL /\ isMobile
              /\ controls.superRes \in {4, 8}) =>
              /\ lastConfirm' \in {"accepted", "declined"}
              /\ posts' # posts => lastConfirm' = "accepted"
              /\ lastConfirm' = "declined" =>
                     UNCHANGED <<currentImageFile, originalImage, enhancedImageUrl,
                                 liveUrls, enhanceBtnDisabled, downloadBtnDisabled,
                                 controls, loadingModal, errorMessage,
                                 mobileProcessing, readers, calls, posts, status>>
              /\ (lastConfirm' = "declined" /\ enhanceBtnClick) => UNCHANGED errorModal]_vars
    /\ [][(EnhanceInvoked /\ (~isMobile \/ controls.superRes \in {1, 2})) =>
              lastConfirm' = "none"]_vars

\* On mobile, with 4x chosen and a file selected, the user declined: nothing
\* was sent and no indicator is shown.
C5_Witness ==
    /\ isMobile
    /\ controls.superRes = 4
    /\ currentImageFile # NULL
    /\ lastConfirm = "declined"
    /\ posts = 0
    /\ ~loadingModal
    /\ ~mobileProcessing
    /\ ~errorModal

\* C6: enhanceImage with a file selected and not declined issues exactly one
\* POST, carrying the Selected File and the values the controls hold; and a
\* POST is issued by nothing but one click on Enhance or Retry, one per click.
C6_OnePostPerClick ==
    /\ [][(EnhanceInvoked /\ currentImageFile # NULL /\ lastConfirm' # "declined") =>
              /\ posts' = posts + 1
              /\ calls' = calls \cup
                     {[id |-> posts + 1, file |-> currentImageFile,
                       params |-> [sharpness |-> controls.sharpness,
                                   contrast |-> controls.contrast,
                                   brightness |-> controls.brightness,
                                   color |-> controls.color,
                                   denoise |-> controls.denoise,
                                   super_resolution |-> controls.superRes]]}
              /\ Cardinality(calls') = Cardinality(calls) + 1]_vars
    /\ [][(posts' # posts \/ ~(calls' \subseteq calls)) =>
              /\ enhanceBtnClick \/ retryBtnClick
              /\ posts' = posts + 1
              /\ Cardinality(calls' \ calls) = 1]_vars

\* A request is in flight that carries the Selected File and a sharpness the
\* user set, after an earlier request of the run has failed.
C6_Witness ==
    /\ posts = 2
    /\ errorMessage # <<>>
    /\ \E c \in calls :
           /\ c.id = 2
           /\ c.file = currentImageFile
           /\ c.params.sharpness = 30
           /\ controls.sharpness = 30
    /\ Cardinality(calls) = 1

\* C7: at most one enhancement request is outstanding.
C7_OneOutstandingRequest == Cardinality(calls) <= 1

\* C8: an invocation that ends, by success, by an HTTP error or by a network
\* failure, leaves the loading indicator hidden (and the mobile processing
\* indicator, on mobile); and if every request resolves, outstanding requests
\* lead to a state with none outstanding and the indicator hidden.
C8_LoadingHiddenOnEveryExit ==
    /\ [][Completion => (~loadingModal' /\ (isMobile => ~mobileProcessing'))]_vars
    /\ (calls # {}) ~> (calls = {} /\ ~loadingModal)

\* On mobile two requests were sent, one succeeded and one failed, and no
\* indicator is left.
C8_Witness ==
    /\ isMobile
    /\ posts = 2
    /\ calls = {}
    /\ enhancedImageUrl # NullUrl
    /\ errorMessage # <<>>
    /\ ~loadingModal
    /\ ~mobileProcessing

\* C9 as claimed: whenever a request is outstanding the loading indicator is
\* visible.
C9_LoadingVisibleWhileOutstanding == calls # {} => loadingModal

\* C9, amended: sending a request shows the loading indicator, and once shown
\* it is hidden only by Cancel, by a swipe on the loading modal (mobile) or
\* by the end of some enhanceImage invocation.
C9_LoadingShownUntilCancelOrEnd ==
    /\ [][posts' # posts => loadingModal']_vars
    /\ [][(loadingModal /\ ~loadingModal') =>
              \/ cancelBtnClick
              \/ modalSwipe("loadingModal")
              \/ Completion]_vars

\* A request is outstanding and Cancel has hidden the indicator.
C9_Witness ==
    /\ calls # {}
    /\ ~loadingModal
    /\ status = showStatus(<<"Enhancement cancelled">>, "info")

\* C10: when a request resolves with success and its body, the stored URL is
\* a new live URL of that response, download is enabled, the status is of
\* type success, and the error modal and its message are left as they were.
C10_SuccessInstallsResult ==
    [][\A c \in calls :
          responseOk(c) =>
              /\ enhancedImageUrl' # NullUrl
              /\ enhancedImageUrl' # enhancedImageUrl
              /\ enhancedImageUrl' \notin liveUrls
              /\ enhancedImageUrl' \in liveUrls'
              /\ enhancedImageUrl'.id = c.id
              /\ enhancedImageUrl'.blob = [file |-> c.file, params |-> c.params]
              /\ ~downloadBtnDisabled'
              /\ status'.type = "success"
              /\ UNCHANGED <<errorModal, errorMessage>>]_vars

\* The only request of the run succeeded: result stored, download enabled,
\* success status, no error modal.
C10_Witness ==
    /\ posts = 1
    /\ calls = {}
    /\ enhancedImageUrl # NullUrl
    /\ enhancedImageUrl.blob.file = currentImageFile
    /\ ~downloadBtnDisabled
    /\ status = showStatus(<<"Image enhanced successfully! Click Download to save.">>,
                           "success")
    /\ ~errorModal
    /\ errorMessage = <<>>

\* The text occurs as a part of the message.
Contains(message, part) == \E i \in 1..Len(message) : message[i] = part

\* C11: a request that fails, by a non-success status or by a network-level
\* failure, shows the error modal (naming the status code and the server's
\* text for a non-success status) and leaves the Enhanced Result, the Selected
\* File and the download flag as they were; when the only request sent so far
\* has failed, download is disabled.
C11_FailureShowsErrorModal ==
    /\ [][\A c \in calls, h \in HttpErrors, t \in ErrorTexts :
              responseNotOk(c, h, t) =>
                  /\ errorModal'
                  /\ Contains(errorMessage', ToString(h))
                  /\ Contains(errorMessage', t)
                  /\ UNCHANGED <<enhancedImageUrl, liveUrls, currentImageFile,
                                 downloadBtnDisabled>>]_vars
    /\ [][\A c \in calls :
              networkFailure(c) =>
                  /\ errorModal'
                  /\ errorMessage' # <<>>
                  /\ UNCHANGED <<enhancedImageUrl, liveUrls, currentImageFile,
                                 downloadBtnDisabled>>]_vars
    /\ []((posts = 1 /\ calls = {} /\ errorMessage # <<>>) => downloadBtnDisabled)

\* The only request of a freshly accepted file came back 500 "OOM": the modal
\* shows both, and download is disabled.
C11_Witness ==
    /\ posts = 1
    /\ calls = {}
    /\ errorModal
    /\ errorMessage = <<"Enhancement failed: ", "Server error: ", "500", " - ", "OOM">>
    /\ currentImageFile # NULL
    /\ enhancedImageUrl = NullUrl
    /\ downloadBtnDisabled

\* C13: Cancel hides the loading indicator and sets the status, and changes
\* nothing else: the outstanding requests, the Selected File, the Enhanced
\* Result and the two button flags stay; a request that succeeds while the
\* status still reads cancelled stores its result and enables download.
C13_CancelOnlyHidesLoading ==
    /\ [][cancelBtnClick =>
              /\ ~loadingModal'
              /\ status' = showStatus(<<"Enhancement cancelled">>, "info")
              /\ UNCHANGED <<calls, posts, currentImageFile, originalImage,
                             enhancedImageUrl, liveUrls, enhanceBtnDisabled,
                             downloadBtnDisabled, controls, errorModal,
                             errorMessage, mobileProcessing, readers>>]_vars
    /\ [][\A c \in calls :
              (responseOk(c) /\ status = showStatus(<<"Enhancement cancelled">>, "info")) =>
                  /\ enhancedImageUrl'.id = c.id
                  /\ enhancedImageUrl' \in liveUrls'
                  /\ ~downloadBtnDisabled']_vars

\* The only request was cancelled and is still outstanding; nothing but the
\* indicator and the status moved.
C13_Witness ==
    /\ posts = 1
    /\ Cardinality(calls) = 1
    /\ ~loadingModal
    /\ status = showStatus(<<"Enhancement cancelled">>, "info")
    /\ currentImageFile # NULL
    /\ enhancedImageUrl = NullUrl
    /\ ~enhanceBtnDisabled
    /\ downloadBtnDisabled

\* C12: Retry hides the error modal and, with a file selected, sends one
\* request that carries the file of the request that failed and the values
\* the controls hold now, whatever was selected, cancelled or reset in
\* between; with no file selected it sends nothing.
C12_RetryResubmitsFailedFile ==
    /\ [][retryBtnClick => ~errorModal']_vars
    /\ [][(retryBtnClick /\ currentImageFile = NULL) => UNCHANGED <<calls, posts>>]_vars
    /\ [][(retryBtnClick /\ posts' # posts) =>
              \E c \in calls' \ calls :
                  /\ c.file = failedFile
                  /\ c.params = [sharpness |-> controls.sharpness,
                                 contrast |-> controls.contrast,
                                 brightness |-> controls.brightness,
                                 color |-> controls.color,
                                 denoise |-> controls.denoise,
                                 super_resolution |-> controls.superRes]]_vars

\* C14: download with no Enhanced Result shows the validation error and
\* saves and changes nothing; download with an Enhanced Result saves that
\* result through an anchor click, ends without an exception, sends no
\* request and leaves the Selected File, the Enhanced Result and the button
\* flags as they were.
C14_DownloadSavesResult ==
    /\ [][(downloadImage /\ enhancedImageUrl = NullUrl) =>
              /\ status' = showStatus(<<"No enhanced image to download">>, "error")
              /\ UNCHANGED <<lastSaved, controllerState>>]_vars
    /\ [][(downloadImage /\ enhancedImageUrl # NullUrl) =>
              /\ lastSaved'.href = enhancedImageUrl
              /\ UNCHANGED <<uncaughtError, calls, posts, currentImageFile,
                             enhancedImageUrl, liveUrls, enhanceBtnDisabled,
                             downloadBtnDisabled>>]_vars

\* A file accept-file takes: an image/<subtype> type and a size within the
\* ceiling.
ValidFile(f) == IsImageMime(FileType(f)) /\ FileSize(f) <= Ceiling

ResetStatus == showStatus(<<"Reset complete. Upload a new image to start.">>, "success")

\* C15: right after reset, from any state, there is no Selected File and no
\* preview data, no Enhanced Result and no live object URL, the controls
\* hold sharpness 2.0, contrast 1.2, brightness 1.1, color 1.1, denoise off,
\* factor 1 and format png, enhance and download are disabled; and a valid
\* file offered next becomes the Selected File and its read starts.
C15_ResetRestoresDefaults ==
    /\ [][resetAll =>
              /\ currentImageFile' = NULL
              /\ originalImage' = NULL
              /\ enhancedImageUrl' = NullUrl
              /\ liveUrls' = {}
              /\ controls' = [sharpness |-> 20, contrast |-> 12, brightness |-> 11,
                              color |-> 11, denoise |-> FALSE, superRes |-> 1,
                              format |-> "png"]
              /\ enhanceBtnDisabled'
              /\ downloadBtnDisabled'
              /\ originalStats' = NoStats
              /\ enhancedStats' = NoStats]_vars
    /\ [][\A f \in Files :
              (handleImageFile(f) /\ status = ResetStatus /\ ValidFile(f)) =>
                  /\ currentImageFile' = f
                  /\ readers'[f] = readers[f] + 1]_vars

\* Reset ran after a 2x result had been stored and
\* saved: the URL that was saved is revoked and everything is back at its
\* default.
C15_Witness ==
    /\ status = ResetStatus
    /\ lastSaved.href # NullUrl
    /\ lastSaved.href.blob.params.super_resolution = 2
    /\ lastSaved.href \notin liveUrls
    /\ enhancedImageUrl = NullUrl
    /\ currentImageFile = NULL
    /\ controls = DefaultControls
    /\ enhanceBtnDisabled
    /\ downloadBtnDisabled

LoadedStatus == showStatus(<<"Image loaded! Adjust settings and click Enhance Image">>,
                           "success")

\* C16: only files that passed the type and size checks are read; when the
\* read of such a file completes, the file is the preview source, the
\* previous Enhanced Result is gone (its URL revoked, the field null, its
\* statistics hidden), enhance is enabled and download is disabled.
C16_ReadCompletionInstallsPreview ==
    /\ [](\A f \in Files :
              readers[f] > 0 => TypeMatches(FileType(f)) /\ FileSize(f) <= Ceiling)
    /\ [][\A f \in Files :
              readerOnload(f) =>
                  /\ originalImage' = f
                  /\ enhancedImageUrl' = NullUrl
                  /\ enhancedImageUrl \notin liveUrls'
                  /\ liveUrls' = {}
                  /\ enhancedStats' = NoStats
                  /\ ~enhanceBtnDisabled'
                  /\ downloadBtnDisabled'
                  /\ status' = LoadedStatus]_vars

\* A second file was read after the first had been enhanced with success: its
\* preview is installed and the result of the first is cleared.
C16_Witness ==
    /\ status = LoadedStatus
    /\ originalImage = "b.jpg"
    /\ currentImageFile = "b.jpg"
    /\ posts = 1
    /\ calls = {}
    /\ failedFile = NULL
    /\ userSteps = 3
    /\ enhancedImageUrl = NullUrl
    /\ liveUrls = {}
    /\ ~enhanceBtnDisabled
    /\ downloadBtnDisabled

\* C17, for the first file accepted in a run (before it was offered nothing
\* was selected, previewed or enhanced and both buttons were disabled): when
\* its read fails an error is shown and the Selected File, the preview data,
\* the Enhanced Result and the button flags are as they were before the offer.
C17_FailedReadRetainsNothing ==
    [][\A f \in Files :
          (readerOnerror(f) /\ userSteps = 1) =>
              /\ status'.type = "error"
              /\ currentImageFile' = NULL
              /\ originalImage' = NULL
              /\ enhancedImageUrl' = NullUrl
              /\ enhanceBtnDisabled'
              /\ downloadBtnDisabled']_vars

\* A size times a scale factor.
Scaled(size, scale) == <<size[1] * scale, size[2] * scale>>

\* C18: a displayed New Size is the size of the file the Enhanced Result was
\* made from times the factor sent with it, and a displayed Enhanced Size of
\* the original statistics is the size of the Selected File times the factor
\* the selector holds.
C18_DisplayedSizeIsScaled ==
    /\ enhancedStats.text = "Enhanced Successfully" =>
           enhancedStats.enhancedSize =
               Scaled(Dim(enhancedImageUrl.blob.file),
                      enhancedImageUrl.blob.params.super_resolution)
    /\ originalStats.text = "Current Size / Enhanced Size" =>
           originalStats.enhancedSize = Scaled(Dim(currentImageFile), controls.superRes)

\* The health probe resolves.
ProbeResolves == healthOk \/ healthNotOk \/ healthError

\* accept-file, enhance, download and reset can be taken.
AcceptEnabled == ENABLED (\E f \in Files : handleImageFile(f))

EnhanceEnabled == ENABLED enhanceBtnClick

DownloadEnabled == ENABLED downloadImage

ResetEnabled == ENABLED resetAll

\* What the four operations can do next, seen on the fields they write: the
\* files accept-file can select, the request counts and indicator enhance can
\* leave, the saves and exceptions download can end in, and whether reset
\* clears the fields.
AcceptEffects ==
    {f \in Files \cup {NULL} :
        ENABLED ((\E g \in Files : handleImageFile(g)) /\ currentImageFile' = f)}

EnhanceEffects ==
    {e \in (0..(MaxUserSteps + 1)) \X BOOLEAN :
        ENABLED (enhanceBtnClick /\ posts' = e[1] /\ loadingModal' = e[2])}

DownloadEffects ==
    {e \in (0..(MaxUserSteps + 1)) \X {"none", "TypeError"} :
        ENABLED (downloadImage /\ lastSaved'.href.id = e[1] /\ uncaughtError' = e[2])}

ResetEffects ==
    {e \in BOOLEAN \X BOOLEAN :
        ENABLED (/\ resetAll
                 /\ (currentImageFile' = NULL) = e[1]
                 /\ (enhancedImageUrl' = NullUrl) = e[2])}

\* C19: one GET is issued to the health endpoint, at initialization; the
\* indicator reads connected after a success response, connection issue after
\* a non-success response and not reachable after a network error; the probe
\* writes nothing but its indicator, no handler writes the probe, and whether
\* accept-file, enhance, download and reset can be taken depends on the
\* buttons only and, like what they do, is the same before and after the
\* probe resolves.
C19_HealthProbeGatesNothing ==
    /\ [](healthGets = 1)
    /\ [](healthPending <=> backendStatus = "checking")
    /\ [][healthOk => backendStatus' = "Backend connected"]_vars
    /\ [][healthNotOk => backendStatus' = "Backend connection issue"]_vars
    /\ [][healthError =>
              backendStatus' = "Backend not reachable. Make sure backend is running on port 8000."]_vars
    /\ [][ProbeResolves =>
              UNCHANGED <<isMobile, currentImageFile, originalImage, enhancedImageUrl,
                          liveUrls, enhanceBtnDisabled, downloadBtnDisabled, controls,
                          loadingModal, errorModal, errorMessage, mobileProcessing,
                          status, readers, calls, posts, userSteps, lastConfirm,
                          failedFile, lastSaved, originalStats, enhancedStats,
                          uncaughtError>>]_vars
    /\ [][~ProbeResolves => UNCHANGED <<backendStatus, healthPending, healthGets>>]_vars
    /\ [](AcceptEnabled <=> userSteps < MaxUserSteps)
    /\ [](EnhanceEnabled <=> (~enhanceBtnDisabled /\ userSteps < MaxUserSteps))
    /\ [](DownloadEnabled <=> ~downloadBtnDisabled)
    /\ []ResetEnabled
    /\ [][ProbeResolves =>
              /\ AcceptEnabled' = AcceptEnabled
              /\ EnhanceEnabled' = EnhanceEnabled
              /\ DownloadEnabled' = DownloadEnabled
              /\ ResetEnabled' = ResetEnabled
              /\ AcceptEffects' = AcceptEffects
              /\ EnhanceEffects' = EnhanceEffects
              /\ DownloadEffects' = DownloadEffects
              /\ ResetEffects' = ResetEffects]_vars

\* The probe has reported the backend unreachable, and a file was accepted,
\* enhanced and saved all the same.
C19_Witness ==
    /\ backendStatus = "Backend not reachable. Make sure backend is running on port 8000."
    /\ ~healthPending
    /\ enhancedImageUrl # NullUrl
    /\ lastSaved.href = enhancedImageUrl
    /\ currentImageFile # NULL

\* The lifecycle state of the controller: Enhancing while a request is
\* outstanding, otherwise Failed while the error modal is shown, otherwise
\* Enhanced with an Enhanced Result, FileSelected with a Selected File only,
\* and Idle with neither.
Phase ==
    IF calls # {} THEN "Enhancing"
    ELSE IF errorModal THEN "Failed"
    ELSE IF enhancedImageUrl # NullUrl THEN "Enhanced"
    ELSE IF currentImageFile # NULL THEN "FileSelected"
    ELSE "Idle"

\* Idle -> FileSelected -> Enhancing -> (Enhanced | Failed) -> Idle, and
\* FileSelected again from Enhanced or Failed.
ClaimedTransitions ==
    {<<"Idle", "FileSelected">>, <<"FileSelected", "Enhancing">>,
     <<"Enhancing", "Enhanced">>, <<"Enhancing", "Failed">>,
     <<"Enhanced", "Idle">>, <<"Failed", "Idle">>,
     <<"Enhanced", "FileSelected">>, <<"Failed", "FileSelected">>}

\* What the handlers add: reset with a file selected and nothing enhanced,
\* Enhance clicked again on a result, Retry, and an error dismissed over an
\* earlier result.
LifecycleTransitions ==
    ClaimedTransitions \cup
    {<<"FileSelected", "Idle">>, <<"Enhanced", "Enhancing">>,
     <<"Failed", "Enhancing">>, <<"Failed", "Enhanced">>}

\* C20 as claimed: every change of the lifecycle state is one of Idle ->
\* FileSelected -> Enhancing -> (Enhanced | Failed) -> Idle, or FileSelected
\* from Enhanced or Failed.
C20_LifecycleAsClaimed ==
    [][Phase' = Phase \/ <<Phase, Phase'>> \in ClaimedTransitions]_vars

\* C20, amended: every change of the lifecycle state is one of the claimed
\* ones or FileSelected -> Idle, Enhanced -> Enhancing, Failed -> Enhancing,
\* Failed -> Enhanced; Enhancing is entered only by a step that sends a
\* request for the Selected File, and is left only by the resolution of a
\* request.
C20_Lifecycle ==
    /\ [][Phase' = Phase \/ <<Phase, Phase'>> \in LifecycleTransitions]_vars
    /\ [][(Phase # "Enhancing" /\ Phase' = "Enhancing") =>
              /\ currentImageFile # NULL
              /\ posts' = posts + 1
              /\ \A c \in calls' : c.file = currentImageFile]_vars
    /\ [][(Phase = "Enhancing" /\ Phase' # "Enhancing") =>
              /\ Completion
              /\ Phase' \in {"Enhanced", "Failed"}]_vars

\* Retry took the controller from Failed back to Enhancing: the second
\* request is outstanding and the error modal is hidden.
C20_Witness ==
    /\ Phase = "Enhancing"
    /\ failedFile # NULL
    /\ posts = 2
    /\ Cardinality(calls) = 1
    /\ ~errorModal
    /\ enhancedImageUrl = NullUrl

\* C21: the response of a request is installed whatever the Selected File
\* has become since the request was sent: when a request sent for one file
\* resolves with success while another file, or none, is selected, its URL
\* becomes the Enhanced Result and download is enabled, and the Selected
\* File stays what it was, so the two do not correspond.
C21_StaleResponseInstalled ==
    [][\A c \in calls :
          (responseOk(c) /\ c.file # currentImageFile) =>
              /\ enhancedImageUrl' # NullUrl
              /\ enhancedImageUrl'.blob.file = c.file
              /\ enhancedImageUrl'.blob.file # currentImageFile'
              /\ ~downloadBtnDisabled']_vars

\* The Enhanced Result on display was made from a file other than the
\* Selected File, and download is enabled.
C21_Witness ==
    /\ enhancedImageUrl # NullUrl
    /\ currentImageFile # NULL
    /\ enhancedImageUrl.blob.file # currentImageFile
    /\ ~downloadBtnDisabled
    /\ calls = {}

\* C22: every download that saves names the file after the request that
\* produced the Enhanced Result being saved: the name part is that of the
\* file the request submitted and the scale suffix is that of the
\* super_resolution value the request sent, whatever was selected since.
C22_FilenameFromRequest ==
    [][(downloadImage /\ enhancedImageUrl # NullUrl /\ currentImageFile # NULL) =>
          lastSaved'.download =
              <<"enhanced">>
              \o scaleSuffix(enhancedImageUrl.blob.params.super_resolution)
              \o <<"_", nameWithoutExt(enhancedImageUrl.blob.file), ".png">>]_vars

\* C23: whenever an Enhanced Result exists a Selected File exists, and so no
\* download has ended in an exception while computing the filename.
C23_ResultImpliesFile ==
    /\ enhancedImageUrl # NullUrl => currentImageFile # NULL
    /\ uncaughtError = "none"

\* C24: whenever the enhance button is enabled a Selected File exists.
C24_EnhanceEnabledImpliesFile ==
    ~enhanceBtnDisabled => currentImageFile # NULL

\* C25: between handlers, download is enabled exactly when an Enhanced
\* Result exists.
C25_DownloadEnabledIffResult ==
    ~downloadBtnDisabled <=> enhancedImageUrl # NullUrl

\* The only request of the run succeeded, and the Enhanced Result it
\* installed has since been cleared by a file read that completed: download
\* is disabled again.
C25_Witness ==
    /\ posts = 1
    /\ calls = {}
    /\ failedFile = NULL
    /\ originalImage # NULL
    /\ status = showStatus(<<"Image loaded! Adjust settings and click Enhance Image">>,
                           "success")
    /\ enhancedImageUrl = NullUrl
    /\ downloadBtnDisabled

\* C26: when the first two steps of a run accept two files and both reads
\* complete with success, in either order, then once no read is pending
\* the preview data is the content of the Selected File, the file accepted
\* last.  Stated on the read that completes last: the Selected File's own
\* read has already installed its preview, and the other file's read is
\* the only one pending.
C26_PreviewIsSelectedFile ==
    [][\A f \in Files :
          (/\ readerOnload(f)
           /\ userSteps = 2
           /\ posts = 0
           /\ currentImageFile # NULL
           /\ originalImage = currentImageFile
           /\ \A g \in Files : readers'[g] = 0)
          => originalImage' = currentImageFile']_vars

====
